---- MODULE Spec2Model ----
(***************************************************************************)
(* Model of compare_func.py: the unordered comparison of two XML trees.    *)
(*                                                                         *)
(* A tree node is a record [tag, attrib, text, children]:                  *)
(*   tag      a string;                                                    *)
(*   attrib   the attribute mapping, kept as the sequence of <<name,       *)
(*            value>> pairs in document order (names unique), as lxml's    *)
(*            element.attrib.items() returns it;                           *)
(*   text     NoText (element.text is None), or the sequence of the        *)
(*            characters of element.text;                                  *)
(*   children the sequence of child nodes in document order.               *)
(* A node of a loaded tree is identified by its position: the sequence of  *)
(* child indices leading to it from the root (<<>> is the root).           *)
(***************************************************************************)
EXTENDS Integers, Sequences, FiniteSets, TLC

VARIABLES
    doc1, doc2,          \* the two files: what their content parses to
    root1, root2,        \* the locals root1, root2 of compare_xml_files
    pc,                  \* position in compare_xml_files
    differences, matches,\* the two logs
    stack,               \* pending calls of compare_elements_unordered, next one first
    calls,               \* the calls of compare_elements_unordered entered so far
    console,             \* lines printed by compare_xml_files
    match_file, diff_file\* contents of match.txt / diff.txt written by this run

vars == <<doc1, doc2, root1, root2, pc, differences, matches, stack, calls,
          console, match_file, diff_file>>

-----------------------------------------------------------------------------
(* Values *)

None == [none |-> TRUE]
Unset == [unset |-> TRUE]
\* element.text of an element without text; no character is four letters long
NoText == <<"None">>
\* a file this run has not written / has written with the given lines
Absent == [written |-> FALSE, lines |-> <<>>]
Written(lines) == [written |-> TRUE, lines |-> lines]
\* file content from which the recovering parser salvages no tree
Unparseable == [unparseable |-> TRUE]

Node(tag, attrib, text, children) ==
    [tag |-> tag, attrib |-> attrib, text |-> text, children |-> children]

Range(s) == {s[i] : i \in DOMAIN s}

Min(a, b) == IF a <= b THEN a ELSE b

\* code points of the characters used in attribute names and values
CodePoint == ("1" :> 49) @@ ("2" :> 50) @@ ("x" :> 120) @@ ("y" :> 121)

\* characters str.strip() removes
Whitespace == {" ", "\t", "\n"}

-----------------------------------------------------------------------------
(* Bounds and the input universe *)

MaxChildren == 2

X1 == <<"x", "1">>
X2 == <<"x", "2">>
Y2 == <<"y", "2">>

GrandChild == Node("g", <<>>, NoText, <<>>)

\* the second has the signature of the first, written differently and with a
\* subtree; the third differs from the first in its text only, the fourth in
\* one attribute value only
ChildNodes ==
    { Node("c", <<X1, Y2>>, <<"f">>, <<>>),
      Node("c", <<Y2, X1>>, <<" ", "f", "\n">>, <<GrandChild>>),
      Node("c", <<X1, Y2>>, NoText, <<>>),
      Node("c", <<X2, Y2>>, <<"f">>, <<>>) }

SeqsUpTo(S, n) == UNION {[1..k -> S] : k \in 0..n}

\* trees that differ below the root only
ChildFamily == {Node("a", <<>>, NoText, cs) : cs \in SeqsUpTo(ChildNodes, MaxChildren)}

RootTags == {"a", "b"}
RootAttribs == {<<>>, <<X1, Y2>>, <<Y2, X1>>, <<X2, Y2>>}
RootTexts == {NoText, <<"f">>, <<"h">>}
RootChildren ==
    { <<>>,
      <<Node("c", <<X1, Y2>>, <<"f">>, <<>>)>>,
      <<Node("c", <<X1, Y2>>, <<"f">>, <<GrandChild>>)>> }

\* trees that differ at the root
RootFamily ==
    {Node(t, a, x, cs) : t \in RootTags, a \in RootAttribs, x \in RootTexts,
                         cs \in RootChildren}

Inputs ==
    (ChildFamily \X ChildFamily) \cup (RootFamily \X RootFamily)
    \cup ({Unparseable} \X (RootFamily \cup {Unparseable}))
    \cup (RootFamily \X {Unparseable})

-----------------------------------------------------------------------------
(* parse_with_recovery *)

parse_with_recovery(doc) == IF doc = Unparseable THEN None ELSE doc

-----------------------------------------------------------------------------
(* element_signature *)

RECURSIVE lstrip(_)
lstrip(s) == IF s # <<>> /\ Head(s) \in Whitespace THEN lstrip(Tail(s)) ELSE s

RECURSIVE rstrip(_)
rstrip(s) ==
    IF s # <<>> /\ s[Len(s)] \in Whitespace THEN rstrip(SubSeq(s, 1, Len(s) - 1)) ELSE s

strip(s) == rstrip(lstrip(s))

\* element.text or ""
TextOrEmpty(text) == IF text = NoText \/ text = <<>> THEN <<>> ELSE text

\* tuple order on (name, value) pairs of one-character strings
ItemLess(p, q) ==
    \/ CodePoint[p[1]] < CodePoint[q[1]]
    \/ p[1] = q[1] /\ CodePoint[p[2]] < CodePoint[q[2]]

RECURSIVE Insert(_, _)
Insert(p, s) ==
    IF s = <<>> THEN <<p>>
    ELSE IF ItemLess(p, Head(s)) THEN <<p>> \o s
    ELSE <<Head(s)>> \o Insert(p, Tail(s))

RECURSIVE sorted(_)
sorted(items) ==
    IF items = <<>> THEN <<>> ELSE Insert(Head(items), sorted(Tail(items)))

\* a signature that leaves the text out
element_signature_NoText(element) ==
    <<element.tag, sorted(element.attrib), <<>>>>

\* a signature that leaves the attributes out
element_signature_NoAttrib(element) ==
    <<element.tag, <<>>, strip(TextOrEmpty(element.text))>>

element_signature(element) ==
    <<element.tag, sorted(element.attrib), strip(TextOrEmpty(element.text))>>

-----------------------------------------------------------------------------
(* compare_elements_unordered *)

\* element1.attrib != element2.attrib compares the two mappings
AttribDict(attrib) == Range(attrib)

\* a comparison that takes the text along with the attributes
AttribDifferOrText(e1, e2) ==
    AttribDict(e1.attrib) # AttribDict(e2.attrib) \/ e1.text # e2.text

AttribDiffer(e1, e2) == AttribDict(e1.attrib) # AttribDict(e2.attrib)

\* the tag test with == in place of !=
TagsDifferInverted(e1, e2) == e1.tag = e2.tag

\* element1.tag != element2.tag
TagsDiffer(e1, e2) == e1.tag # e2.tag

RECURSIVE NodeAt(_, _)
NodeAt(root, pos) ==
    IF pos = <<>> THEN root ELSE NodeAt(root.children[Head(pos)], Tail(pos))

\* the defaultdict built from one node's children: signature -> the indices
\* of the children with that signature, in document order
RECURSIVE IndicesWith(_, _, _)
IndicesWith(children, key, i) ==
    IF i > Len(children) THEN <<>>
    ELSE (IF element_signature(children[i]) = key THEN <<i>> ELSE <<>>)
         \o IndicesWith(children, key, i + 1)

SiblingGroup(children) ==
    [key \in {element_signature(children[i]) : i \in DOMAIN children}
        |-> IndicesWith(children, key, 1)]

DifferenceKinds ==
    {"Different tags", "Different attributes", "Missing element in second file",
     "Missing element in first file", "Different count of element"}
MatchKinds == {"Matching tags", "Matching attributes", "Matching element"}
ReconcileKinds ==
    {"Missing element in second file", "Missing element in first file",
     "Different count of element", "Matching element"}

DifferentTags(e1, e2, path) ==
    [kind |-> "Different tags", path |-> path, tag1 |-> e1.tag, tag2 |-> e2.tag]

MatchingTags(e1, path) == [kind |-> "Matching tags", path |-> path, tag |-> e1.tag]

AttribRecord(e1, e2, at) ==
    IF AttribDiffer(e1, e2)
    THEN [kind |-> "Different attributes", path |-> at,
          attrib1 |-> AttribDict(e1.attrib), attrib2 |-> AttribDict(e2.attrib)]
    ELSE [kind |-> "Matching attributes", path |-> at, attrib |-> AttribDict(e1.attrib)]

\* the reconciliation with the count test inverted
ReconcileRecordCountInverted(key, set1, set2, at) ==
    IF key \notin DOMAIN set2
    THEN [kind |-> "Missing element in second file", path |-> at, key |-> key]
    ELSE IF key \notin DOMAIN set1
    THEN [kind |-> "Missing element in first file", path |-> at, key |-> key]
    ELSE IF Len(set1[key]) = Len(set2[key])
    THEN [kind |-> "Different count of element", path |-> at, key |-> key,
          count1 |-> Len(set1[key]), count2 |-> Len(set2[key])]
    ELSE [kind |-> "Matching element", path |-> at, key |-> key,
          count1 |-> Len(set1[key])]

\* the reconciliation with the two "missing" messages exchanged
ReconcileRecordSwapped(key, set1, set2, at) ==
    IF key \notin DOMAIN set2
    THEN [kind |-> "Missing element in first file", path |-> at, key |-> key]
    ELSE IF key \notin DOMAIN set1
    THEN [kind |-> "Missing element in second file", path |-> at, key |-> key]
    ELSE IF Len(set1[key]) # Len(set2[key])
    THEN [kind |-> "Different count of element", path |-> at, key |-> key,
          count1 |-> Len(set1[key]), count2 |-> Len(set2[key])]
    ELSE [kind |-> "Matching element", path |-> at, key |-> key,
          count1 |-> Len(set1[key])]

\* the record the reconciliation loop appends for one key of the union
ReconcileRecord(key, set1, set2, at) ==
    IF key \notin DOMAIN set2
    THEN [kind |-> "Missing element in second file", path |-> at, key |-> key]
    ELSE IF key \notin DOMAIN set1
    THEN [kind |-> "Missing element in first file", path |-> at, key |-> key]
    ELSE IF Len(set1[key]) # Len(set2[key])
    THEN [kind |-> "Different count of element", path |-> at, key |-> key,
          count1 |-> Len(set1[key]), count2 |-> Len(set2[key])]
    ELSE [kind |-> "Matching element", path |-> at, key |-> key,
          count1 |-> Len(set1[key])]

\* a pairing that skips a signature whose counts differ
zipEqualOnly(l1, l2) ==
    IF Len(l1) # Len(l2) THEN <<>> ELSE [i \in 1..Len(l1) |-> <<l1[i], l2[i]>>]

\* a pairing that walks the second list from its end
zipReversed(l1, l2) ==
    [i \in 1..Min(Len(l1), Len(l2)) |-> <<l1[i], l2[Len(l2) + 1 - i]>>]

\* zip(set1[key], set2[key])
zip(l1, l2) == [i \in 1..Min(Len(l1), Len(l2)) |-> <<l1[i], l2[i]>>]

\* the orders in which a loop may visit the elements of a set
RECURSIVE Orders(_)
Orders(S) ==
    IF S = {} THEN {<<>>}
    ELSE UNION {{<<k>> \o o : o \in Orders(S \ {k})} : k \in S}

RECURSIVE Flatten(_)
Flatten(ss) == IF ss = <<>> THEN <<>> ELSE Head(ss) \o Flatten(Tail(ss))

IsDifference(r) == r.kind \in DifferenceKinds
IsMatch(r) == r.kind \in MatchKinds

\* the recursive calls of one call, in the order they are made
RecursiveCalls(frame, set1, set2, order, at) ==
    Flatten([j \in 1..Len(order) |->
        LET pairs == zip(set1[order[j]], set2[order[j]])
        IN [i \in 1..Len(pairs) |->
               [p1 |-> Append(frame.p1, pairs[i][1]),
                p2 |-> Append(frame.p2, pairs[i][2]),
                path |-> at]]])

-----------------------------------------------------------------------------
(* The state machine *)

Init ==
    /\ \E in \in Inputs : doc1 = in[1] /\ doc2 = in[2]
    /\ root1 = Unset /\ root2 = Unset
    /\ pc = "parse1"
    /\ differences = <<>> /\ matches = <<>>
    /\ stack = <<>> /\ calls = <<>>
    /\ console = <<>>
    /\ match_file = Absent /\ diff_file = Absent

Parse1 ==
    /\ pc = "parse1"
    /\ root1' = parse_with_recovery(doc1)
    /\ console' = IF doc1 = Unparseable THEN Append(console, "Failed to parse XML") ELSE console
    /\ pc' = "parse2"
    /\ UNCHANGED <<doc1, doc2, root2, differences, matches, stack, calls,
                   match_file, diff_file>>

Parse2 ==
    /\ pc = "parse2"
    /\ root2' = parse_with_recovery(doc2)
    /\ console' = IF doc2 = Unparseable THEN Append(console, "Failed to parse XML") ELSE console
    /\ pc' = "check"
    /\ UNCHANGED <<doc1, doc2, root1, differences, matches, stack, calls,
                   match_file, diff_file>>

\* the test with "and" in place of "or"
LoadFailedBoth == root1 = None /\ root2 = None

\* root1 is None or root2 is None
LoadFailed == root1 = None \/ root2 = None

\* lines 82-84: a missing root ends compare_xml_files
Abort ==
    /\ pc = "check"
    /\ LoadFailed
    /\ console' = Append(console, "Failed to parse one or both XML files.")
    /\ pc' = "done"
    /\ UNCHANGED <<doc1, doc2, root1, root2, differences, matches, stack, calls,
                   match_file, diff_file>>

\* lines 86-89: fresh logs, and the call on the two roots with path "/"
StartCompare ==
    /\ pc = "check"
    /\ ~LoadFailed
    /\ differences' = <<>> /\ matches' = <<>>
    /\ stack' = <<[p1 |-> <<>>, p2 |-> <<>>, path |-> "/"]>>
    /\ pc' = "compare"
    /\ UNCHANGED <<doc1, doc2, root1, root2, calls, console, match_file, diff_file>>

\* lines 30-32: a call on two elements with different tags
CompareTagMismatch ==
    /\ pc = "compare" /\ stack # <<>>
    /\ LET frame == Head(stack)
           e1 == NodeAt(root1, frame.p1)
           e2 == NodeAt(root2, frame.p2)
       IN /\ TagsDiffer(e1, e2)
          /\ differences' = Append(differences, DifferentTags(e1, e2, frame.path))
          /\ calls' = Append(calls, frame)
          /\ stack' = Tail(stack)
    /\ UNCHANGED <<doc1, doc2, root1, root2, pc, matches, console, match_file, diff_file>>

\* lines 34-74: a call on two elements with the same tag, up to its recursive calls
CompareChildren ==
    /\ pc = "compare" /\ stack # <<>>
    /\ LET frame == Head(stack)
           e1 == NodeAt(root1, frame.p1)
           e2 == NodeAt(root2, frame.p2)
           at == frame.path \o "/" \o e1.tag
           set1 == SiblingGroup(e1.children)
           set2 == SiblingGroup(e2.children)
       IN /\ ~TagsDiffer(e1, e2)
          /\ \E uo \in Orders(DOMAIN set1 \cup DOMAIN set2),
                io \in Orders(DOMAIN set1 \cap DOMAIN set2) :
               LET appended ==
                       <<MatchingTags(e1, frame.path), AttribRecord(e1, e2, at)>>
                       \o [i \in 1..Len(uo) |-> ReconcileRecord(uo[i], set1, set2, at)]
               IN /\ differences' = differences \o SelectSeq(appended, IsDifference)
                  /\ matches' = matches \o SelectSeq(appended, IsMatch)
                  /\ stack' = RecursiveCalls(frame, set1, set2, io, at) \o Tail(stack)
          /\ calls' = Append(calls, frame)
    /\ UNCHANGED <<doc1, doc2, root1, root2, pc, console, match_file, diff_file>>

\* lines 91-94: the top-level call has returned
Report ==
    /\ pc = "compare" /\ stack = <<>>
    /\ console' = Append(console,
                         IF differences = <<>> THEN "XML structures are identical."
                         ELSE "XML structures are different.")
    /\ pc' = "write_matches"
    /\ UNCHANGED <<doc1, doc2, root1, root2, differences, matches, stack, calls,
                   match_file, diff_file>>

\* lines 97-99
WriteMatches ==
    /\ pc = "write_matches"
    /\ match_file' = Written(matches)
    /\ pc' = "write_differences"
    /\ UNCHANGED <<doc1, doc2, root1, root2, differences, matches, stack, calls,
                   console, diff_file>>

\* lines 102-105
WriteDifferences ==
    /\ pc = "write_differences"
    /\ diff_file' = IF differences # <<>> THEN Written(differences) ELSE diff_file
    /\ pc' = "done"
    /\ UNCHANGED <<doc1, doc2, root1, root2, differences, matches, stack, calls,
                   console, match_file>>

Next ==
    \/ Parse1
    \/ Parse2
    \/ Abort
    \/ StartCompare
    \/ CompareTagMismatch
    \/ CompareChildren
    \/ Report
    \/ WriteMatches
    \/ WriteDifferences

Spec == Init /\ [][Next]_vars

-----------------------------------------------------------------------------
(* Vocabulary of the properties *)

\* the top-level call of compare_elements_unordered has returned
Returned == calls # <<>> /\ stack = <<>>

Count(log, kind) == Cardinality({i \in DOMAIN log : log[i].kind = kind})

HasKind(log, kind) == \E i \in DOMAIN log : log[i].kind = kind

\* the signatures among the direct children of e, and the children carrying one
Keys(e) == {element_signature(e.children[i]) : i \in DOMAIN e.children}
ChildrenWith(e, key) == {i \in DOMAIN e.children : element_signature(e.children[i]) = key}
N(e, key) == Cardinality(ChildrenWith(e, key))
\* the i-th child of e with signature key, in document order
Nth(e, key, i) ==
    CHOOSE j \in ChildrenWith(e, key) :
        Cardinality({k \in ChildrenWith(e, key) : k <= j}) = i

SameAttributes(e1, e2) ==
    /\ \A i \in DOMAIN e1.attrib : \E j \in DOMAIN e2.attrib : e1.attrib[i] = e2.attrib[j]
    /\ \A j \in DOMAIN e2.attrib : \E i \in DOMAIN e1.attrib : e1.attrib[i] = e2.attrib[j]

Trimmed(e) == strip(TextOrEmpty(e.text))

\* the call a step of compare_elements_unordered runs, and its two elements
Cur == Head(stack)
E1 == NodeAt(root1, Cur.p1)
E2 == NodeAt(root2, Cur.p2)

\* a step that runs one call / one call on elements with equal tags
CallStep == pc = "compare" /\ stack # <<>> /\ calls' = Append(calls, Cur)
EqualTagCallStep == CallStep /\ E1.tag = E2.tag

\* what the step appended to the logs, and the recursive calls it made
NewDifferences == SubSeq(differences', Len(differences) + 1, Len(differences'))
NewMatches == SubSeq(matches', Len(matches) + 1, Len(matches'))
Pushed == SubSeq(stack', 1, Len(stack') - Len(stack) + 1)

\* the recursive calls made on a child of the first / second element with signature key
PushedWith1(key) ==
    {i \in DOMAIN Pushed : element_signature(NodeAt(root1, Pushed[i].p1)) = key}
PushedWith2(key) ==
    {i \in DOMAIN Pushed : element_signature(NodeAt(root2, Pushed[i].p2)) = key}

\* the reconciliation records about key among the records log
ReconciledIn(log, key) ==
    {i \in DOMAIN log : log[i].kind \in ReconcileKinds /\ log[i].key = key}

NoNodeTwice(cs) ==
    \A i, j \in DOMAIN cs : i # j => cs[i].p1 # cs[j].p1 /\ cs[i].p2 # cs[j].p2

IsPermutation(cs, ds) ==
    /\ Len(cs) = Len(ds)
    /\ \E f \in [DOMAIN cs -> DOMAIN cs] :
          /\ \A i, j \in DOMAIN cs : i # j => f[i] # f[j]
          /\ \A i \in DOMAIN cs : ds[i] = cs[f[i]]

\* u is t with the direct children of one node permuted
RECURSIVE PermutedOneLevel(_, _)
PermutedOneLevel(t, u) ==
    /\ t.tag = u.tag /\ t.attrib = u.attrib /\ t.text = u.text
    /\ \/ IsPermutation(t.children, u.children)
       \/ /\ Len(t.children) = Len(u.children)
          /\ \E i \in DOMAIN t.children :
                /\ PermutedOneLevel(t.children[i], u.children[i])
                /\ \A j \in DOMAIN t.children : j # i => t.children[j] = u.children[j]

-----------------------------------------------------------------------------
(* Properties *)

\* C1: comparing a tree with a copy of itself in which the direct children of
\* one node are permuted ends with an empty differences log, also when two of
\* the permuted siblings have the same signature and different subtrees.
C1_OrderInsensitive ==
    (Returned /\ PermutedOneLevel(root1, root2)) => differences = <<>>

\* C2: comparing a tree with itself ends with an empty differences log and a
\* non-empty matches log.
C2_Identity ==
    (Returned /\ root1 = root2) => differences = <<>> /\ matches # <<>>

C2_Witness ==
    /\ Returned /\ root1 = root2
    /\ Len(root1.children) >= 2 /\ Len(calls) >= 4
    /\ differences = <<>>

\* C3 as stated: for a signature present in both sibling groups with counts
\* n1 # n2, a call appends exactly one "Different count of element" difference
\* citing n1 and n2 and makes no recursive call on a child with that signature.
C3_Original ==
    [][EqualTagCallStep =>
        \A key \in Keys(E1) \cap Keys(E2) :
            N(E1, key) # N(E2, key) =>
                /\ Cardinality(ReconciledIn(NewDifferences, key)) = 1
                /\ \A i \in ReconciledIn(NewDifferences, key) :
                      /\ NewDifferences[i].kind = "Different count of element"
                      /\ NewDifferences[i].count1 = N(E1, key)
                      /\ NewDifferences[i].count2 = N(E2, key)
                /\ PushedWith1(key) = {} /\ PushedWith2(key) = {}]_vars

\* C3 as amended: for a signature present in both sibling groups with counts
\* n1 # n2, a call appends exactly one "Different count of element" difference
\* citing n1 and n2 and makes min(n1, n2) recursive calls on the children with
\* that signature, pairing the first min(n1, n2) of either side in document
\* order; only the surplus children are left out of the recursion.
C3_CountMismatch ==
    [][EqualTagCallStep =>
        \A key \in Keys(E1) \cap Keys(E2) :
            N(E1, key) # N(E2, key) =>
                /\ Cardinality(ReconciledIn(NewDifferences, key)) = 1
                /\ \A i \in ReconciledIn(NewDifferences, key) :
                      /\ NewDifferences[i].kind = "Different count of element"
                      /\ NewDifferences[i].count1 = N(E1, key)
                      /\ NewDifferences[i].count2 = N(E2, key)
                /\ ReconciledIn(NewMatches, key) = {}
                /\ Cardinality(PushedWith1(key)) = Min(N(E1, key), N(E2, key))
                /\ {<<Pushed[i].p1, Pushed[i].p2>> : i \in PushedWith1(key)}
                     = {<<Append(Cur.p1, Nth(E1, key, i)), Append(Cur.p2, Nth(E2, key, i))>> :
                            i \in 1..Min(N(E1, key), N(E2, key))}]_vars

\* a parent with two children of one signature against a parent with one
C3_Witness ==
    /\ Returned
    /\ \E key \in Keys(root1) \cap Keys(root2) : N(root1, key) = 2 /\ N(root2, key) = 1
    /\ \E i \in DOMAIN differences :
          /\ differences[i].kind = "Different count of element"
          /\ differences[i].count1 = 2 /\ differences[i].count2 = 1
    /\ Len(calls) >= 2

\* C4: a call on elements with equal tags makes, for every signature present in
\* both sibling groups with counts n1 and n2, exactly min(n1, n2) recursive
\* calls, the i-th child with that signature of the one paired with the i-th of
\* the other; children whose signature occurs on one side only are not recursed
\* into; and no node of either tree is passed to more than one call.
C4_Pairing ==
    [][EqualTagCallStep =>
        /\ \A key \in Keys(E1) \cap Keys(E2) :
              /\ Cardinality(PushedWith1(key)) = Min(N(E1, key), N(E2, key))
              /\ PushedWith2(key) = PushedWith1(key)
              /\ {<<Pushed[i].p1, Pushed[i].p2>> : i \in PushedWith1(key)}
                   = {<<Append(Cur.p1, Nth(E1, key, i)), Append(Cur.p2, Nth(E2, key, i))>> :
                          i \in 1..Min(N(E1, key), N(E2, key))}
        /\ \A key \in (Keys(E1) \cup Keys(E2)) \ (Keys(E1) \cap Keys(E2)) :
              PushedWith1(key) = {} /\ PushedWith2(key) = {}
        /\ \A i \in DOMAIN Pushed :
              /\ Len(Pushed[i].p1) = Len(Cur.p1) + 1
              /\ SubSeq(Pushed[i].p1, 1, Len(Cur.p1)) = Cur.p1
              /\ Len(Pushed[i].p2) = Len(Cur.p2) + 1
              /\ SubSeq(Pushed[i].p2, 1, Len(Cur.p2)) = Cur.p2
        /\ NoNodeTwice(calls')]_vars

\* two children of one signature on either side, all four compared
C4_Witness ==
    /\ pc = "done" /\ Returned
    /\ \E key \in Keys(root1) \cap Keys(root2) : N(root1, key) = 2 /\ N(root2, key) = 2
    /\ \E i, j \in DOMAIN calls :
          /\ calls[i].p1 = <<1>> /\ calls[i].p2 = <<1>>
          /\ calls[j].p1 = <<2>> /\ calls[j].p2 = <<2>>

\* C5: the reconciliation of a call on elements with equal tags appends exactly
\* one record for every signature of the union of the two sibling groups:
\* "Missing element in second file" (a difference) if only the first element has
\* it, "Missing element in first file" (a difference) if only the second has it,
\* "Different count of element" (a difference) if both have it with unequal
\* counts, "Matching element" with the count (a match) if both have it with
\* equal counts; and nothing when neither element has children.
C5_Reconciliation ==
    [][EqualTagCallStep =>
        /\ \A key \in Keys(E1) \cup Keys(E2) :
              /\ Cardinality(ReconciledIn(NewDifferences, key))
                   + Cardinality(ReconciledIn(NewMatches, key)) = 1
              /\ key \notin Keys(E2) =>
                    \E i \in ReconciledIn(NewDifferences, key) :
                        NewDifferences[i].kind = "Missing element in second file"
              /\ key \notin Keys(E1) =>
                    \E i \in ReconciledIn(NewDifferences, key) :
                        NewDifferences[i].kind = "Missing element in first file"
              /\ (key \in Keys(E1) \cap Keys(E2) /\ N(E1, key) # N(E2, key)) =>
                    \E i \in ReconciledIn(NewDifferences, key) :
                        NewDifferences[i].kind = "Different count of element"
              /\ (key \in Keys(E1) \cap Keys(E2) /\ N(E1, key) = N(E2, key)) =>
                    \E i \in ReconciledIn(NewMatches, key) :
                        /\ NewMatches[i].kind = "Matching element"
                        /\ NewMatches[i].count1 = N(E1, key)
        /\ Cardinality({i \in DOMAIN NewDifferences : NewDifferences[i].kind \in ReconcileKinds})
             + Cardinality({i \in DOMAIN NewMatches : NewMatches[i].kind \in ReconcileKinds})
             = Cardinality(Keys(E1) \cup Keys(E2))
        /\ (E1.children = <<>> /\ E2.children = <<>>) =>
              Len(NewDifferences) + Len(NewMatches) = 2]_vars

\* a run that reconciled a signature of either side alone and a shared one
C5_Witness ==
    /\ pc = "done"
    /\ HasKind(differences, "Missing element in second file")
    /\ HasKind(differences, "Missing element in first file")
    /\ HasKind(matches, "Matching element")

\* C6: for two roots with different tags the comparison ends with exactly one
\* difference, a "Different tags" record, and no match, whatever the roots'
\* attributes, text and children.
C6_TagMismatch ==
    (Returned /\ root1.tag # root2.tag) =>
        /\ Len(differences) = 1
        /\ differences[1].kind = "Different tags"
        /\ matches = <<>>

C6_Witness ==
    /\ Returned /\ root1.tag # root2.tag
    /\ ~SameAttributes(root1, root2)
    /\ root1.children # <<>> /\ root2.children # <<>>
    /\ Len(differences) = 1

\* C7: a call on two parents with equal tag and attributes, each with a single
\* child, the two children equal in tag and attributes and different in trimmed
\* text, appends exactly two differences, one "Missing element in second file"
\* and one "Missing element in first file", and makes no recursive call.
C7_TextAsSignature ==
    [][(/\ EqualTagCallStep
        /\ SameAttributes(E1, E2)
        /\ Len(E1.children) = 1 /\ Len(E2.children) = 1
        /\ E1.children[1].tag = E2.children[1].tag
        /\ SameAttributes(E1.children[1], E2.children[1])
        /\ Trimmed(E1.children[1]) # Trimmed(E2.children[1]))
       =>
        /\ Len(NewDifferences) = 2
        /\ Count(NewDifferences, "Missing element in second file") = 1
        /\ Count(NewDifferences, "Missing element in first file") = 1
        /\ Pushed = <<>>]_vars

C7_Witness ==
    /\ Returned
    /\ Len(root1.children) = 1 /\ Len(root2.children) = 1
    /\ root1.children[1].tag = root2.children[1].tag
    /\ SameAttributes(root1.children[1], root2.children[1])
    /\ Trimmed(root1.children[1]) # Trimmed(root2.children[1])
    /\ Len(differences) = 2 /\ Len(calls) = 1

\* C8: when either file yields no root, compare_elements_unordered is never
\* called and neither match.txt nor diff.txt is written; a comparison is run
\* and a file written only when both loads produced a root.
C8_LoadFailure ==
    /\ (doc1 = Unparseable \/ doc2 = Unparseable) =>
          /\ calls = <<>> /\ stack = <<>>
          /\ match_file = Absent /\ diff_file = Absent
    /\ (calls # <<>> \/ stack # <<>> \/ match_file.written \/ diff_file.written) =>
          /\ root1 \notin {None, Unset}
          /\ root2 \notin {None, Unset}

\* the second file alone failed to load
C8_Witness ==
    /\ pc = "done"
    /\ doc1 # Unparseable /\ doc2 = Unparseable
    /\ root1 # None /\ root2 = None

\* C9: every recursive call receives two elements with equal tag and equal
\* attributes, so it appends a "Matching attributes" record; "Different tags"
\* and "Different attributes" records come from the call on the roots only, at
\* most one of each in a run.
C9_RootOnlyTagAttribute ==
    /\ \A i \in DOMAIN calls :
          i > 1 =>
              /\ NodeAt(root1, calls[i].p1).tag = NodeAt(root2, calls[i].p2).tag
              /\ SameAttributes(NodeAt(root1, calls[i].p1), NodeAt(root2, calls[i].p2))
    /\ Count(differences, "Different tags") <= 1
    /\ Count(differences, "Different attributes") <= 1
    /\ \A i \in DOMAIN differences :
          /\ differences[i].kind = "Different tags" => differences[i].path = "/"
          /\ differences[i].kind = "Different attributes" =>
                differences[i].path = "//" \o root1.tag
    /\ calls # <<>> => Count(matches, "Matching attributes") >= Len(calls) - 1

\* roots with different attributes, and a recursive call
C9_Witness ==
    /\ Returned
    /\ Len(calls) >= 3
    /\ Count(differences, "Different attributes") = 1

\* C10 as stated: two roots with equal tag, equal attributes and sibling groups
\* that reconcile with no difference end with an empty differences log.
C10_Original ==
    (/\ Returned
     /\ root1.tag = root2.tag
     /\ SameAttributes(root1, root2)
     /\ \A key \in Keys(root1) \cup Keys(root2) : N(root1, key) = N(root2, key))
    => differences = <<>>

\* C10 as amended: two roots with equal tag and equal attributes, whose
\* comparison appends no "Missing element" and no "Different count of element"
\* difference in the call on the roots or in any recursive call, end with an
\* empty differences log and the report "identical", also when the texts of
\* the two roots differ.
C10_RootTextIgnored ==
    (/\ Returned
     /\ root1.tag = root2.tag
     /\ SameAttributes(root1, root2)
     /\ \A i \in DOMAIN differences : differences[i].kind \notin ReconcileKinds)
    => /\ differences = <<>>
       /\ pc # "compare" => console[Len(console)] = "XML structures are identical."

\* roots that differ in their text alone
C10_Witness ==
    /\ pc = "done" /\ Returned
    /\ root1.text # root2.text
    /\ root1.tag = root2.tag /\ SameAttributes(root1, root2)
    /\ root1.children # <<>> /\ root1.children = root2.children
    /\ differences = <<>>
    /\ diff_file = Absent

====
